---- MODULE Spec2Model ----
(***************************************************************************)
(* Model of src/app/page.tsx: the product page of the repository.          *)
(*                                                                         *)
(*   getProducts()  one fetch of the product endpoint; every exception of  *)
(*                  its try block is caught, logged and turned into [].    *)
(*   Home()         awaits getProducts() and renders either the            *)
(*                  empty-state message or one card per element.           *)
(*                                                                         *)
(* Strings are sequences of UTF-16 code units, the unit of String.length   *)
(* and String.substring.  A JSON value is a record with a type tag.        *)
(* An action is one turn of the event loop: the call of Home, or the       *)
(* settlement of a fetch or of a body read together with the continuations *)
(* it resumes.  When getProducts resolves, the continuation of Home runs   *)
(* as a microtask of the same turn, before the I/O of any other render.    *)
(***************************************************************************)
EXTENDS Integers, Sequences, FiniteSets, TLC

(***************************************************************************)
(* Bounds of the model.                                                    *)
(***************************************************************************)
NumRenders == 2
MaxProducts == 2
MaxTitleLen == 52
MaxDescriptionLen == 102
NumPatterns == 1

(***************************************************************************)
(* Program constants.                                                      *)
(***************************************************************************)
TitleLimit == 50
DescriptionLimit == 100
Ellipsis == <<46, 46, 46>>
EmptyStateMessage == <<26242, 26080, 20135, 21697, 25968, 25454>>
DiagnosticLabel == "Error fetching products:"

Renders == 1..NumRenders

\* pc[r]         where render r stands: "init", "awaitFetch", "awaitJson",
\*               "done" (markup returned) or "thrown"
\* res[r]        the settlement of the fetch of render r
\* products[r]   the value getProducts resolved with, Home's `products`
\* output[r]     the markup Home returned
\* console[r]    the console.error calls made on behalf of render r
\* fetchCount[r] the requests render r has issued
\* tPc, tProduct, tCard, tAgain   the truncation rule applied to one product
VARIABLES pc, res, products, output, console, fetchCount,
          tPc, tProduct, tCard, tAgain

vars == <<pc, res, products, output, console, fetchCount,
          tPc, tProduct, tCard, tAgain>>
pageVars == <<pc, res, products, output, console, fetchCount>>
truncVars == <<tPc, tProduct, tCard, tAgain>>

(***************************************************************************)
(* Strings.                                                                *)
(***************************************************************************)
Min(a, b) == IF a < b THEN a ELSE b
Max(a, b) == IF a < b THEN b ELSE a
Clamp(n, len) == Max(0, Min(n, len))

\* String.prototype.substring(start, end): both indices are clamped to
\* [0, length] and swapped when start > end; the result is the code units
\* at the 0-based positions lo .. hi-1.
Substring(s, start, end) ==
    LET a == Clamp(start, Len(s))
        b == Clamp(end, Len(s))
    IN SubSeq(s, Min(a, b) + 1, Max(a, b))

\* s.length > limit ? `${s.substring(0, limit)}...` : s
TruncateTextGe(s, limit) ==
    IF Len(s) >= limit THEN Substring(s, 0, limit) \o Ellipsis ELSE s
TruncateTextCut(s, limit) ==
    IF Len(s) > limit THEN Substring(s, 0, limit + 1) \o Ellipsis ELSE s
TruncateText(s, limit) ==
    IF Len(s) > limit THEN Substring(s, 0, limit) \o Ellipsis ELSE s

\* The input strings: pattern 0 is a run of '.' (the code unit of the
\* marker), the others vary with the position.
Unit(i, p) == IF p = 0 THEN 46 ELSE 97 + ((i * p) % 26)
Text(n, p) == [i \in 1..n |-> Unit(i, p)]
Texts(maxLen) == {Text(n, p) : n \in 0..maxLen, p \in 0..NumPatterns}

(***************************************************************************)
(* JSON values and responses.                                              *)
(***************************************************************************)
Product(id, title, description) ==
    [type |-> "product", id |-> id, title |-> title,
     description |-> description]
NullItem == [type |-> "null", id |-> 0, title |-> <<>>, description |-> <<>>]

\* Two products: one with a title over its limit, one with a description
\* over its limit.
Products ==
    { Product(1, Text(TitleLimit + 1, 1), Text(2, 1)),
      Product(2, Text(3, 2), Text(DescriptionLimit + 1, 2)) }

SeqsUpTo(S, n) == UNION {[1..k -> S] : k \in 0..n}

JsonArray(items) == [type |-> "array", items |-> items, units |-> <<>>]
JsonString(units) == [type |-> "string", items |-> <<>>, units |-> units]
JsonNull == [type |-> "null", items |-> <<>>, units |-> <<>>]
JsonNumber == [type |-> "number", items |-> <<>>, units |-> <<>>]
JsonObject == [type |-> "object", items |-> <<>>, units |-> <<>>]
Undefined == [type |-> "undefined", items |-> <<>>, units |-> <<>>]

\* What a well-formed body can hold: every list of up to MaxProducts
\* products, and the JSON values that are no list of products.
ProductLists == SeqsUpTo(Products, MaxProducts)
JsonValues ==
    {JsonArray(l) : l \in ProductLists}
    \cup {JsonArray(<<NullItem>>), JsonNull, JsonNumber, JsonObject,
          JsonString(<<>>), JsonString(Text(2, 1))}

\* A body either parses as JSON to `value` or makes res.json() reject.
Body(wellFormed, value) == [wellFormed |-> wellFormed, value |-> value]
BadBody == Body(FALSE, JsonNull)
Bodies == {Body(TRUE, v) : v \in JsonValues} \cup {BadBody}
\* The bodies sent along with a non-success status.
ErrorBodies ==
    {BadBody, Body(TRUE, JsonArray(<<Product(1, Text(3, 1), <<>>)>>))}

Statuses == {200, 404, 500}
\* Response.ok
Ok(status) == status >= 200 /\ status <= 299

Response(status, body) ==
    [settled |-> "resolved", status |-> status, body |-> body]
Rejected == [settled |-> "rejected", status |-> 0, body |-> BadBody]
NoResponse == [settled |-> "pending", status |-> 0, body |-> BadBody]
Responses ==
    {Response(s, b) : s \in {s \in Statuses : Ok(s)}, b \in Bodies}
    \cup {Response(s, b) : s \in {s \in Statuses : ~Ok(s)}, b \in ErrorBodies}

(***************************************************************************)
(* Home: the markup.                                                       *)
(***************************************************************************)
NoOutput == [kind |-> "none", message |-> <<>>, cards |-> <<>>]
EmptyState == [kind |-> "empty", message |-> EmptyStateMessage, cards |-> <<>>]
Grid(cards) == [kind |-> "grid", message |-> <<>>, cards |-> cards]

\* One card of products.map(...): key, <h2> and <p>.
Card(product) ==
    [key |-> product.id,
     title |-> TruncateText(product.title, TitleLimit),
     description |-> TruncateText(product.description, DescriptionLimit)]

\* Reading .length of the awaited value: null and undefined have no
\* properties (TypeError), arrays and strings have a length, anything else
\* gives undefined.
LengthThrows(v) == v.type \in {"null", "undefined"}
HasLength(v) == v.type \in {"array", "string"}
JsLength(v) == IF v.type = "array" THEN Len(v.items) ELSE Len(v.units)

\* products.map(...) throws when the value has no map method or when an
\* element is null (product.id of null).
MapThrows(v) ==
    \/ v.type # "array"
    \/ \E i \in 1..Len(v.items) : v.items[i].type = "null"

MapCardsReversed(items) ==
    [i \in 1..Len(items) |-> Card(items[Len(items) + 1 - i])]
MapCards(items) == [i \in 1..Len(items) |-> Card(items[i])]

\* products.length === 0 ? <empty state> : <grid of products.map(...)>
\* NoOutput stands for a TypeError thrown on the way.
RenderAlwaysGrid(v) ==
    IF LengthThrows(v) \/ MapThrows(v) THEN NoOutput
    ELSE Grid(MapCards(v.items))
Render(v) ==
    IF LengthThrows(v) THEN NoOutput
    ELSE IF HasLength(v) /\ JsLength(v) = 0 THEN EmptyState
    ELSE IF MapThrows(v) THEN NoOutput
    ELSE Grid(MapCards(v.items))

\* const products = await getProducts(): the value getProducts has just
\* resolved with.
AwaitedShared(r) == products'[1]
Awaited(r) == products'[r]

\* Home resumes after `await getProducts()` and returns its markup, or
\* throws.
HomeResume(r) ==
    LET out == Render(Awaited(r))
    IN /\ output' = [output EXCEPT ![r] = out]
       /\ pc' = [pc EXCEPT ![r] =
                    IF out.kind = "none" THEN "thrown" ELSE "done"]

(***************************************************************************)
(* getProducts.                                                            *)
(***************************************************************************)
Diagnostic(name, status) ==
    [label |-> DiagnosticLabel, name |-> name, status |-> status]

\* catch (error) { console.error(...); return []; }
\* The handler logs once, issues no further request and resolves with [].
CatchNoReturn(r, error) ==
    /\ console' = [console EXCEPT ![r] = Append(@, error)]
    /\ products' = [products EXCEPT ![r] = Undefined]
    /\ UNCHANGED fetchCount
CatchSilent(r, error) ==
    /\ console' = console
    /\ products' = [products EXCEPT ![r] = JsonArray(<<>>)]
    /\ UNCHANGED fetchCount
CatchRetry(r, error) ==
    /\ console' = [console EXCEPT ![r] = Append(@, error)]
    /\ products' = [products EXCEPT ![r] = JsonArray(<<>>)]
    /\ fetchCount' = [fetchCount EXCEPT ![r] = @ + 1]
Catch(r, error) ==
    /\ console' = [console EXCEPT ![r] = Append(@, error)]
    /\ products' = [products EXCEPT ![r] = JsonArray(<<>>)]
    /\ UNCHANGED fetchCount

\* `return data` hands the parsed value to the caller as it is.
GetProductsReturn(data) == data

\* Home() is invoked: it calls getProducts(), which calls fetch() and
\* suspends.
HomeCall(r) ==
    /\ pc[r] = "init"
    /\ fetchCount' = [fetchCount EXCEPT ![r] = @ + 1]
    /\ pc' = [pc EXCEPT ![r] = "awaitFetch"]
    /\ UNCHANGED <<res, products, output, console, truncVars>>

\* fetch() rejects (transport failure): the catch returns [] and Home
\* resumes.
FetchRejects(r) ==
    /\ pc[r] = "awaitFetch"
    /\ res' = [res EXCEPT ![r] = Rejected]
    /\ Catch(r, Diagnostic("TypeError", 0))
    /\ HomeResume(r)
    /\ UNCHANGED truncVars

\* fetch() resolves with a response.  !res.ok throws into the catch and
\* Home resumes; otherwise res.json() starts reading the body and
\* getProducts suspends again.
FetchResolves(r) ==
    /\ pc[r] = "awaitFetch"
    /\ \E response \in Responses :
        /\ res' = [res EXCEPT ![r] = response]
        /\ IF ~Ok(response.status)
           THEN /\ Catch(r, Diagnostic("Error", response.status))
                /\ HomeResume(r)
           ELSE /\ pc' = [pc EXCEPT ![r] = "awaitJson"]
                /\ UNCHANGED <<products, console, fetchCount, output>>
    /\ UNCHANGED truncVars

\* res.json() settles: a body that does not parse rejects into the catch,
\* otherwise getProducts returns the parsed value; either way Home resumes.
JsonSettles(r) ==
    /\ pc[r] = "awaitJson"
    /\ IF ~res[r].body.wellFormed
       THEN Catch(r, Diagnostic("SyntaxError", 0))
       ELSE /\ products' = [products EXCEPT ![r] =
                                GetProductsReturn(res[r].body.value)]
            /\ UNCHANGED <<console, fetchCount>>
    /\ HomeResume(r)
    /\ UNCHANGED <<res, truncVars>>

(***************************************************************************)
(* Specification of the page.                                              *)
(***************************************************************************)
NoCard == [key |-> 0, title |-> <<>>, description |-> <<>>]

TruncOff ==
    /\ tPc = "off"
    /\ tProduct = NullItem
    /\ tCard = NoCard
    /\ tAgain = NoCard

PageInit ==
    /\ pc = [r \in Renders |-> "init"]
    /\ res = [r \in Renders |-> NoResponse]
    /\ products = [r \in Renders |-> Undefined]
    /\ output = [r \in Renders |-> NoOutput]
    /\ console = [r \in Renders |-> <<>>]
    /\ fetchCount = [r \in Renders |-> 0]

Init == PageInit /\ TruncOff

Next ==
    \/ \E r \in Renders : HomeCall(r)
    \/ \E r \in Renders : FetchRejects(r)
    \/ \E r \in Renders : FetchResolves(r)
    \/ \E r \in Renders : JsonSettles(r)

Spec == Init /\ [][Next]_vars

(***************************************************************************)
(* Specification of the truncation rule alone: one product whose title and *)
(* description range over Texts is turned into its card, and the card's    *)
(* texts are then put through the same rule again.                         *)
(***************************************************************************)
TruncInit ==
    /\ PageInit
    /\ tPc = "input"
    /\ \E title \in Texts(MaxTitleLen),
          description \in Texts(MaxDescriptionLen) :
          tProduct = Product(1, title, description)
    /\ tCard = NoCard
    /\ tAgain = NoCard

TruncateOnce ==
    /\ tPc = "input"
    /\ tCard' = Card(tProduct)
    /\ tPc' = "rendered"
    /\ UNCHANGED <<tProduct, tAgain, pageVars>>

TruncateAgain ==
    /\ tPc = "rendered"
    /\ tAgain' = Card(Product(tCard.key, tCard.title, tCard.description))
    /\ tPc' = "again"
    /\ UNCHANGED <<tProduct, tCard, pageVars>>

TruncNext == TruncateOnce \/ TruncateAgain

SpecTrunc == TruncInit /\ [][TruncNext]_vars

(***************************************************************************)
(* Vocabulary of the properties.                                           *)
(***************************************************************************)
\* getProducts of render r has resolved.
Finished(r) == pc[r] \in {"done", "thrown"}
Returned(r) == Finished(r)

TransportFailure(r) == res[r].settled = "rejected"
StatusFailure(r) ==
    res[r].settled = "resolved" /\ res[r].status \notin 200..299
ParseFailure(r) ==
    /\ res[r].settled = "resolved"
    /\ res[r].status \in 200..299
    /\ ~res[r].body.wellFormed
Failed(r) ==
    Returned(r) /\ (TransportFailure(r) \/ StatusFailure(r) \/ ParseFailure(r))

EmptyList == [type |-> "array", items |-> <<>>, units |-> <<>>]
IsProductList(v) ==
    v.type = "array" /\ \A i \in 1..Len(v.items) : v.items[i].type = "product"

\* `shown` is `s` when s has at most n code units, else the first n code
\* units of s followed by three '.'.
Shows(shown, s, n) ==
    /\ Len(s) <= n => shown = s
    /\ Len(s) > n =>
        /\ Len(shown) = n + 3
        /\ \A i \in 1..n : shown[i] = s[i]
        /\ \A i \in (n + 1)..(n + 3) : shown[i] = 46

\* What getProducts owes its caller for a settled fetch.
ResultOf(response) ==
    IF \/ response.settled = "rejected"
       \/ response.status \notin 200..299
       \/ ~response.body.wellFormed
    THEN EmptyList
    ELSE response.body.value

(***************************************************************************)
(* Properties.                                                             *)
(***************************************************************************)

\* C1: after a rejected fetch, a non-success status or a body that fails to
\* parse, getProducts has resolved with the empty list, Home does not throw
\* and what it renders is the empty-state message.
C1_FailureYieldsEmptyState ==
    \A r \in Renders :
        Failed(r) =>
            /\ products[r] = EmptyList
            /\ pc[r] # "thrown"
            /\ pc[r] = "done" => output[r].kind = "empty"
C1_Witness ==
    \E r, q \in Renders :
        /\ pc[r] = "done" /\ StatusFailure(r) /\ res[r].status = 500
        /\ output[r].kind = "empty"
        /\ pc[q] = "done" /\ ParseFailure(q) /\ output[q].kind = "empty"

\* C2: whatever the endpoint sends, the value getProducts hands to Home is a
\* list; a success response whose JSON body is not an array of products
\* yields the empty list; Home never throws.
C2_HomeAlwaysReceivesList ==
    \A r \in Renders :
        Returned(r) =>
            /\ products[r].type = "array"
            /\ ~IsProductList(ResultOf(res[r])) => products[r] = EmptyList
            /\ pc[r] # "thrown"

\* C3: when the fetch succeeded with a non-empty product list, Home renders
\* a grid with one card per product, the i-th card made of the i-th product,
\* repeated ids and repeated products included.
C3_CardsAreTheList ==
    \A r \in Renders :
        (/\ Finished(r)
         /\ ~Failed(r)
         /\ IsProductList(products[r])
         /\ Len(products[r].items) > 0) =>
            /\ pc[r] = "done"
            /\ output[r].kind = "grid"
            /\ Len(output[r].cards) = Len(products[r].items)
            /\ \A i \in 1..Len(products[r].items) :
                LET card == output[r].cards[i]
                    product == products[r].items[i]
                IN /\ card.key = product.id
                   /\ Shows(card.title, product.title, 50)
                   /\ Shows(card.description, product.description, 100)
C3_Witness ==
    \E r \in Renders :
        /\ pc[r] = "done"
        /\ ~Failed(r)
        /\ IsProductList(products[r])
        /\ Len(products[r].items) = 2
        /\ products[r].items[1] = products[r].items[2]
        /\ Len(output[r].cards) = 2

\* C4: when the list Home obtained is empty, the output is the empty-state
\* message alone: no grid and no card.
C4_EmptyListGivesEmptyState ==
    \A r \in Renders :
        (Finished(r) /\ products[r] = EmptyList) =>
            /\ pc[r] = "done"
            /\ output[r].kind = "empty"
            /\ output[r].message = EmptyStateMessage
            /\ output[r].cards = <<>>
C4_Witness ==
    \E r, q \in Renders :
        /\ pc[r] = "done" /\ ~Failed(r) /\ products[r] = EmptyList
        /\ output[r].kind = "empty"
        /\ pc[q] = "done" /\ Failed(q) /\ output[q].kind = "empty"

\* C5: a rendered title is the title when it has at most 50 code units and
\* its first 50 code units followed by "..." otherwise; the same for the
\* description with 100.
C5_TruncationRule ==
    tPc \in {"rendered", "again"} =>
        /\ Shows(tCard.title, tProduct.title, 50)
        /\ Shows(tCard.description, tProduct.description, 100)
C5_Witness ==
    /\ tPc = "rendered"
    /\ Len(tProduct.title) = 50
    /\ tCard.title = tProduct.title
    /\ Len(tProduct.description) = 101
    /\ Len(tCard.description) = 103

\* C6: a render issues exactly one request: none before Home is called, one
\* from then on, also after a failure.
C6_SingleRequest ==
    \A r \in Renders :
        /\ pc[r] = "init" => fetchCount[r] = 0
        /\ pc[r] # "init" => fetchCount[r] = 1
C6_Witness ==
    \E r \in Renders : pc[r] = "done" /\ Failed(r) /\ fetchCount[r] = 1

\* C7: the outcome of a finished render is a function of the settlement of
\* its own fetch, whatever the other renders received and wherever they
\* stand.
C7_RendersIndependent ==
    /\ \A r \in Renders :
        Finished(r) => output[r] = Render(ResultOf(res[r]))
    /\ \A r, q \in Renders :
        (Finished(r) /\ Finished(q) /\ res[r] = res[q]) =>
            (output[r] = output[q] /\ pc[r] = pc[q])
C7_Witness ==
    \E r, q \in Renders :
        /\ pc[r] = "done" /\ output[r].kind = "grid"
        /\ pc[q] = "done" /\ Failed(q) /\ output[q].kind = "empty"

\* C8: getProducts logs exactly one diagnostic on each failure path and none
\* on success, and a failed fetch shows in the output as the empty-state
\* message only.
C8_OneDiagnosticPerFailure ==
    \A r \in Renders :
        /\ ~Returned(r) => console[r] = <<>>
        /\ (Returned(r) /\ ~Failed(r)) => console[r] = <<>>
        /\ Failed(r) =>
            /\ Len(console[r]) = 1
            /\ console[r][1].label = DiagnosticLabel
            /\ output[r] \in {NoOutput, EmptyState}
C8_Witness ==
    \E r, q \in Renders :
        /\ pc[r] = "done" /\ StatusFailure(r) /\ Len(console[r]) = 1
        /\ console[r][1].status = res[r].status
        /\ pc[q] = "done" /\ ~Failed(q) /\ console[q] = <<>>

\* C9: a render has no output while its fetch is pending and, once the fetch
\* has settled and the render has ended, its output is the card grid or the
\* empty-state message.
C9_EndsWithGridOrEmptyState ==
    \A r \in Renders :
        /\ ~Finished(r) => output[r] = NoOutput
        /\ Finished(r) => output[r].kind \in {"grid", "empty"}

\* C10: a rendered title has at most 53 code units and a rendered
\* description at most 103, and putting a rendered text through the rule
\* again leaves it as it is.
C10_BoundedAndIdempotent ==
    /\ tPc \in {"rendered", "again"} =>
        /\ Len(tCard.title) <= 53
        /\ Len(tCard.description) <= 103
    /\ tPc = "again" =>
        /\ tAgain.title = tCard.title
        /\ tAgain.description = tCard.description
C10_Witness ==
    /\ tPc = "again"
    /\ Len(tProduct.title) > 50
    /\ Len(tCard.title) = 53
    /\ tAgain.title = tCard.title
    /\ Len(tProduct.description) > 100
    /\ tAgain.description = tCard.description

====
